---- MODULE Spec2Model ----
(***************************************************************************)
(* Model of linopy/remote.py: RemoteHandler.execute (the line protocol     *)
(* spoken over the interactive shell) and RemoteHandler.solve_on_remote    *)
(* (stage script, stage model, run, fetch, load).                          *)
(*                                                                         *)
(* Text is modelled as sequences of one-character strings, so that         *)
(* strip / endswith / startswith / in / rsplit / int are computed          *)
(* character by character as Python computes them.                         *)
(***************************************************************************)
EXTENDS Integers, Sequences, FiniteSets, TLC

VARIABLES
    hpc,           \* two handlers on one host: each handler's position in solve_on_remote
    rfs,           \* two handlers on one host: the remote file system, path -> file
    fetched,       \* two handlers on one host: the file each handler's get brought back
    mode,          \* which public method the caller invoked: "none", "execute", "solve"
    pc,            \* position of the single (blocking) thread inside the handler
    cfg,           \* the handler's hook attributes: [pre, post]
    arg,           \* the text passed to execute(cmd)
    cmd,           \* execute's local cmd after cmd.strip("\n")
    writes,        \* the chunks passed to self.stdin.write, in order
    flushes,       \* number of self.stdin.flush() calls
    stream,        \* raw lines pending in self.stdout, not yet read
    closed,        \* the channel is closed: reading past the last line is EOF
    shell,         \* what the remote shell answered to this invocation
    nread,         \* number of lines execute has taken from self.stdout
    print_stdout,  \* execute's local print_stdout
    exit_status,   \* execute's local exit_status
    sink,          \* the lines passed to print(), in order
    outcome,       \* how the public call ended: "none", "ok" or the exception raised
    log,           \* the collaborator calls made so far, in order
    tmpfiles       \* the local temporary files that currently exist

\* the state of the one handler whose calls are followed step by step
handlerVars == <<mode, pc, cfg, arg, cmd, writes, flushes, stream, closed,
                 shell, nread, print_stdout, exit_status, sink, outcome, log,
                 tmpfiles>>

\* the state of the handlers that share one remote host
fleetVars == <<hpc, rfs, fetched>>

vars == <<handlerVars, fleetVars>>

(***************************************************************************)
(* Bounds of the model.                                                    *)
(***************************************************************************)
MaxLines == 2       \* lines of one answer besides echo and sentinel:
                    \* those pending before the echo plus those the command prints
MaxExit == 1        \* exit codes 0..MaxExit
MaxCalls == 2       \* calls of execute made one after the other on one session
MaxLeftover == 1    \* lines an earlier call left unread when the next call starts

(***************************************************************************)
(* Characters and text.                                                    *)
(***************************************************************************)
NL == "\n"
SP == " "

\* str.strip() without argument removes these
Whitespace == {" ", "\n", "\t", "\r"}

Digit == {"0", "1", "2", "3", "4", "5", "6", "7", "8", "9"}

DigitVal(c) ==
    CASE c = "0" -> 0 [] c = "1" -> 1 [] c = "2" -> 2 [] c = "3" -> 3
      [] c = "4" -> 4 [] c = "5" -> 5 [] c = "6" -> 6 [] c = "7" -> 7
      [] c = "8" -> 8 [] c = "9" -> 9

DigitChar(n) ==
    CASE n = 0 -> "0" [] n = 1 -> "1" [] n = 2 -> "2" [] n = 3 -> "3"
      [] n = 4 -> "4" [] n = 5 -> "5" [] n = 6 -> "6" [] n = 7 -> "7"
      [] n = 8 -> "8" [] n = 9 -> "9"

SetMin(S) == CHOOSE x \in S : \A y \in S : x <= y
\* the greatest element, as the least of the negated ones
SetMax(S) == 0 - SetMin({0 - x : x \in S})

\* str.strip(chars): drop leading and trailing characters that are in chars
Strip(s, chars) ==
    LET keep == {i \in 1..Len(s) : s[i] \notin chars}
    IN  IF keep = {} THEN <<>> ELSE SubSeq(s, SetMin(keep), SetMax(keep))

\* str.endswith
EndsWith(s, t) ==
    /\ Len(t) <= Len(s)
    /\ SubSeq(s, Len(s) - Len(t) + 1, Len(s)) = t

\* str.startswith
StartsWith(s, t) ==
    /\ Len(t) <= Len(s)
    /\ SubSeq(s, 1, Len(t)) = t

\* t in s
Contains(s, t) ==
    \E i \in 0..(Len(s) - Len(t)) : SubSeq(s, i + 1, i + Len(t)) = t

\* str.rstrip()
RStrip(s) ==
    LET keep == {i \in 1..Len(s) : s[i] \notin Whitespace}
    IN  IF keep = {} THEN <<>> ELSE SubSeq(s, 1, SetMax(keep))

\* str.rsplit(maxsplit=1): split once, from the right, on a run of whitespace
RSplit1(s) ==
    LET r    == RStrip(s)
        ws   == {i \in 1..Len(r) : r[i] \in Whitespace}
        k    == IF ws = {} THEN 0 ELSE SetMax(ws)
        rest == RStrip(SubSeq(r, 1, k))
        last == SubSeq(r, k + 1, Len(r))
    IN  IF r = <<>> THEN <<>>
        ELSE IF rest = <<>> THEN <<last>>
        ELSE <<rest, last>>

\* the texts int() accepts: optional sign, digits, single underscores between digits
IsIntText(t) ==
    LET b == IF t # <<>> /\ t[1] \in {"+", "-"} THEN Tail(t) ELSE t
    IN  /\ b # <<>>
        /\ \A i \in 1..Len(b) : b[i] \in Digit \cup {"_"}
        /\ b[1] # "_" /\ b[Len(b)] # "_"
        /\ \A i \in 1..(Len(b) - 1) : ~(b[i] = "_" /\ b[i + 1] = "_")

RECURSIVE DigitsValue(_)
DigitsValue(d) ==
    IF d = <<>> THEN 0
    ELSE 10 * DigitsValue(SubSeq(d, 1, Len(d) - 1)) + DigitVal(d[Len(d)])

\* int(t) for a text that IsIntText accepts
IntValue(t) ==
    LET neg == t[1] = "-"
        b   == IF t[1] \in {"+", "-"} THEN Tail(t) ELSE t
        v   == DigitsValue(SelectSeq(b, LAMBDA c : c # "_"))
    IN  IF neg THEN 0 - v ELSE v

\* str(n) for n >= 0
RECURSIVE Decimal(_)
Decimal(n) ==
    IF n < 10 THEN <<DigitChar(n)>>
    ELSE Decimal(n \div 10) \o <<DigitChar(n % 10)>>

\* the lines of a text, as "\n" separates them
RECURSIVE SplitLines(_)
SplitLines(s) ==
    LET nl == {i \in 1..Len(s) : s[i] = NL}
    IN  IF nl = {} THEN <<s>>
        ELSE <<SubSeq(s, 1, SetMin(nl) - 1)>>
               \o SplitLines(SubSeq(s, SetMin(nl) + 1, Len(s)))

\* number of "\n" in a text
CountNL(s) == Cardinality({i \in 1..Len(s) : s[i] = NL})

RECURSIVE Concat(_)
Concat(ss) == IF ss = <<>> THEN <<>> ELSE Head(ss) \o Concat(Tail(ss))

(***************************************************************************)
(* Program constants.                                                      *)
(***************************************************************************)
\* finish = "End of stdout buffer. Finished with exit status"
finish ==
    <<"E","n","d"," ","o","f"," ","s","t","d","o","u","t"," ","b","u","f","f",
      "e","r","."," ","F","i","n","i","s","h","e","d"," ","w","i","t","h"," ",
      "e","x","i","t"," ","s","t","a","t","u","s">>

\* echo_cmd = "echo {} $?".format(finish)
echo_cmd == <<"e","c","h","o"," ">> \o finish \o <<" ","$","?">>

\* python_executable: str = "python"
python_executable == <<"p","y","t","h","o","n">>

\* python_file: str = "/tmp/linopy-execution.py"
python_file ==
    <<"/","t","m","p","/","l","i","n","o","p","y","-","e","x","e","c","u","t",
      "i","o","n",".","p","y">>

(***************************************************************************)
(* The hook attributes.  RemoteHandler declares no pre_execution or        *)
(* post_execution field, so a handler has such an attribute only if the    *)
(* caller assigned it after construction.                                  *)
(***************************************************************************)
NoAttr == [attr |-> "absent", text |-> <<>>]
NoneAttr == [attr |-> "none", text |-> <<>>]
StrAttr(t) == [attr |-> "str", text |-> t]

\* what a caller may have done with each attribute: nothing, None, "" or a snippet
PreHooks == {NoAttr, NoneAttr, StrAttr(<<"p","r","e">>)}
PostHooks == {NoAttr, StrAttr(<<>>), StrAttr(<<"p","o","s","t">>)}

\* hasattr(self, name)
HasAttr(h) == h.attr # "absent"

\* truth value of the attribute, as "if self.pre_execution:" takes it
Truthy(h) == h.attr = "str" /\ h.text # <<>>

(***************************************************************************)
(* Inputs: the command texts a caller passes to execute, and the lines a   *)
(* remote shell may send.                                                  *)
(***************************************************************************)
CmdPool ==
    { <<>>,                     \* ""
      <<"c">>,                  \* "c"
      <<" ","c"," ">>,          \* " c "
      <<"c",NL,"d",NL>>,        \* "c\nd\n"
      <<"1">> }                 \* "1"

LinePool ==
    { <<"x">>,                  \* ordinary output
      <<"x"," ","c">>,          \* output that ends with the command text "c"
      finish \o <<" ","1">>,    \* a line that itself starts with the token
      finish \o <<" ","x">> }   \* token, then something that is no integer

\* what may be pending in the channel before the echo
BannerPool ==
    { <<"x">>,                  \* login banner, MOTD
      finish \o <<" ","1">> }   \* leftover text that starts with the token

SeqsUpTo(S, n) == UNION {[1..k -> S] : k \in 0..n}

(***************************************************************************)
(* The remote shell.  After the two input lines are flushed the shell      *)
(* answers: whatever was pending in the channel (login banner, MOTD,       *)
(* leftover text), the echo of the typed command, the lines the command    *)
(* prints, and the line "echo <finish> $?" produces.  A shell on a         *)
(* terminal ("tty") shows a prompt before each typed line and also echoes  *)
(* the typed echo command; a plain shell ("plain") echoes the command      *)
(* text only.                                                              *)
(***************************************************************************)
ShellStyles == {"plain", "tty"}

Prompt(style) == IF style = "tty" THEN <<"$", " ">> ELSE <<>>

\* the echo of the typed text: one line per typed line
EchoLines(style, text) ==
    LET ls == SplitLines(text)
    IN  [i \in 1..Len(ls) |-> Prompt(style) \o ls[i]]

\* the line the shell prints for "echo <finish> $?" when $? is code
SentinelLine(code) == finish \o <<" ">> \o Decimal(code)

\* the lines of one answer, each ended by "\n" as readline returns them
Transcript(style, banner, text, outputs, code) ==
    LET body == banner
                \o EchoLines(style, text)
                \o outputs
                \o (IF style = "tty" THEN <<Prompt(style) \o echo_cmd>> ELSE <<>>)
                \o <<SentinelLine(code)>>
    IN  [i \in 1..Len(body) |-> body[i] \o <<NL>>]

\* python_executable + " " + python_file, the line that runs the driver script
InterpreterLine == python_executable \o <<" ">> \o python_file

\* the shell runs the typed lines one after the other and $? in the echo command
\* is the exit status of the last of them: the exit status of the interpreter
\* line is $? (code) unless another typed line follows it
InterpreterStatuses(text, code) ==
    LET ls == SplitLines(text)
    IN  IF \E i \in 1..(Len(ls) - 1) : ls[i] = InterpreterLine
        THEN 0..MaxExit
        ELSE {code}

NoAnswer ==
    [answered |-> FALSE, style |-> "plain", banner |-> <<>>, outputs |-> <<>>,
     code |-> 0, interp |-> 0]

(***************************************************************************)
(* Handlers that share one remote host.  Each keeps its remote paths in    *)
(* three fields; the paths are the class defaults unless the caller passes *)
(* others.                                                                 *)
(***************************************************************************)
Handlers == {"A", "B"}

\* the fields that hold a remote path
PathFields == {"python_file", "model_unsolved_file", "model_solved_file"}

\* variant: every handler has remote paths of its own
RemotePathPerHandler(h, field) == <<h, field>>

\* the remote path in handler h's field: the default, the same for every handler
RemotePath(h, field) == <<"/tmp", field>>

RemotePaths == {RemotePath(h, f) : h \in Handlers, f \in PathFields}

\* a remote file: by = the handler whose call wrote it (for the solved model,
\* whose script wrote it), from = the handler whose model it holds
NoFile == [by |-> "none", from |-> "none"]

(***************************************************************************)
(* Initial state: a constructed handler (shell and SFTP session open),     *)
(* with the hook attributes the caller has or has not assigned.            *)
(***************************************************************************)
Init ==
    /\ mode = "none"
    /\ pc = "idle"
    /\ cfg = [pre |-> NoAttr, post |-> NoAttr]
    /\ arg = <<>>
    /\ cmd = <<>>
    /\ writes = <<>>
    /\ flushes = 0
    /\ stream = <<>>
    /\ closed = FALSE
    /\ shell = NoAnswer
    /\ nread = 0
    /\ print_stdout = FALSE
    /\ exit_status = 0
    /\ sink = <<>>
    /\ outcome = "none"
    /\ log = <<>>
    /\ tmpfiles = {}
    /\ hpc = [h \in Handlers |-> "write_py"]
    /\ rfs = [p \in RemotePaths |-> NoFile]
    /\ fetched = [h \in Handlers |-> NoFile]

execVars == <<cmd, writes, flushes, stream, closed, shell, nread,
              print_stdout, exit_status, sink>>

\* the collaborator call e has been made in this run
Logged(e) == \E i \in 1..Len(log) : log[i] = e

\* an exception leaves the public method
Raise(kind) ==
    /\ outcome' = kind
    /\ pc' = "done"

(***************************************************************************)
(* The caller.                                                             *)
(***************************************************************************)
\* handler.execute(c)
CallExecute ==
    /\ pc = "idle"
    /\ \E c \in CmdPool : arg' = c
    /\ mode' = "execute"
    /\ pc' = "exec_write"
    /\ log' = Append(log, "execute")
    /\ UNCHANGED <<cfg, execVars, outcome, tmpfiles>>
    /\ UNCHANGED fleetVars

\* handler.pre_execution = ..., handler.post_execution = ... (or neither),
\* then handler.solve_on_remote(model)
CallSolve ==
    /\ pc = "idle"
    /\ cfg' \in [pre : PreHooks, post : PostHooks]
    /\ mode' = "solve"
    /\ pc' = "write_py"
    /\ UNCHANGED <<arg, execVars, outcome, log, tmpfiles>>
    /\ UNCHANGED fleetVars

(***************************************************************************)
(* RemoteHandler.execute                                                   *)
(***************************************************************************)
\* variant: the first write lacks the "\n" that ends the command line
StdinWritesNoNewline(c) == << c, echo_cmd \o <<NL>> >>

\* the two chunks execute writes to self.stdin for the stripped command c
StdinWrites(c) == << c \o <<NL>>, echo_cmd \o <<NL>> >>

\* lines 169-177: strip, write twice, flush once, initialise the scan
ExecWrite ==
    /\ pc = "exec_write"
    /\ cmd' = Strip(arg, {NL})
    /\ writes' = writes \o StdinWrites(cmd')
    /\ flushes' = flushes + 1
    /\ print_stdout' = FALSE
    /\ exit_status' = 0
    /\ pc' = "exec_read"
    /\ UNCHANGED <<mode, cfg, arg, stream, closed, shell, nread, sink, outcome,
                   log, tmpfiles>>
    /\ UNCHANGED fleetVars

\* the remote shell answers the flushed input
RemoteRespond ==
    /\ pc = "exec_read"
    /\ ~shell.answered
    /\ \E style \in ShellStyles, code \in 0..MaxExit, eof \in BOOLEAN,
          banner \in SeqsUpTo(BannerPool, MaxLines) :
       \E outputs \in SeqsUpTo(LinePool, MaxLines - Len(banner)),
          interp \in InterpreterStatuses(cmd, code) :
          /\ shell' = [answered |-> TRUE, style |-> style, banner |-> banner,
                       outputs |-> outputs, code |-> code, interp |-> interp]
          /\ stream' = stream \o Transcript(style, banner, cmd, outputs, code)
          /\ closed' = eof
    /\ UNCHANGED <<mode, pc, cfg, arg, cmd, writes, flushes, nread,
                   print_stdout, exit_status, sink, outcome, log, tmpfiles>>
    /\ UNCHANGED fleetVars

\* line 179: str(line).strip("\n").strip()
CleanLine(raw) == Strip(Strip(raw, {NL}), Whitespace)

\* line 180
IsEcho(line, c) == EndsWith(line, c)

\* line 183
IsSentinel(line) == StartsWith(line, finish)

\* line 186
IsPrinted(line, printing) == ~Contains(line, finish) /\ printing

\* variant: a sentinel line sets the exit status but the scan goes on
ExecReadKeepsScanning ==
    /\ pc = "exec_read"
    /\ stream # <<>>
    /\ stream' = Tail(stream)
    /\ nread' = nread + 1
    /\ LET line == CleanLine(Head(stream))
           parts == RSplit1(line)
       IN  IF IsEcho(line, cmd)
           THEN /\ print_stdout' = TRUE
                /\ UNCHANGED <<pc, exit_status, sink, outcome>>
           ELSE IF IsSentinel(line)
           THEN IF Len(parts) < 2 \/ ~IsIntText(parts[2])
                THEN /\ Raise("ValueError")
                     /\ UNCHANGED <<print_stdout, exit_status, sink>>
                ELSE /\ exit_status' = IntValue(parts[2])
                     /\ pc' = IF stream' = <<>> THEN "exec_check" ELSE pc
                     /\ UNCHANGED <<print_stdout, sink, outcome>>
           ELSE IF IsPrinted(line, print_stdout)
           THEN /\ sink' = Append(sink, line)
                /\ UNCHANGED <<pc, print_stdout, exit_status, outcome>>
           ELSE UNCHANGED <<pc, print_stdout, exit_status, sink, outcome>>
    /\ UNCHANGED <<mode, cfg, arg, cmd, writes, flushes, closed, shell, log,
                   tmpfiles>>
    /\ UNCHANGED fleetVars

\* lines 178-187: one iteration of "for line in self.stdout"
ExecRead ==
    /\ pc = "exec_read"
    /\ stream # <<>>
    /\ stream' = Tail(stream)
    /\ nread' = nread + 1
    /\ LET line == CleanLine(Head(stream))
           parts == RSplit1(line)
       IN  IF IsEcho(line, cmd)
           THEN /\ print_stdout' = TRUE
                /\ UNCHANGED <<pc, exit_status, sink, outcome>>
           ELSE IF IsSentinel(line)
           THEN IF Len(parts) < 2
                THEN /\ Raise("IndexError")
                     /\ UNCHANGED <<print_stdout, exit_status, sink>>
                ELSE IF ~IsIntText(parts[2])
                THEN /\ Raise("ValueError")
                     /\ UNCHANGED <<print_stdout, exit_status, sink>>
                ELSE /\ exit_status' = IntValue(parts[2])
                     /\ pc' = "exec_check"
                     /\ UNCHANGED <<print_stdout, sink, outcome>>
           ELSE IF IsPrinted(line, print_stdout)
           THEN /\ sink' = Append(sink, line)
                /\ UNCHANGED <<pc, print_stdout, exit_status, outcome>>
           ELSE UNCHANGED <<pc, print_stdout, exit_status, sink, outcome>>
    /\ UNCHANGED <<mode, cfg, arg, cmd, writes, flushes, closed, shell, log,
                   tmpfiles>>
    /\ UNCHANGED fleetVars

\* the for loop ends because the stream is exhausted and closed
ExecEOF ==
    /\ pc = "exec_read"
    /\ shell.answered
    /\ stream = <<>>
    /\ closed
    /\ pc' = "exec_check"
    /\ UNCHANGED <<mode, cfg, arg, execVars, outcome, log, tmpfiles>>
    /\ UNCHANGED fleetVars

\* variant: the exit status is not looked at, execute always returns
ExecCheckIgnoresStatus ==
    /\ pc = "exec_check"
    /\ log' = Append(log, "execute_returned")
    /\ IF mode = "execute"
       THEN outcome' = "ok" /\ pc' = "done"
       ELSE outcome' = outcome /\ pc' = "get"
    /\ UNCHANGED <<mode, cfg, arg, execVars, tmpfiles>>
    /\ UNCHANGED fleetVars

\* lines 189-190, and the return to the caller
ExecCheck ==
    /\ pc = "exec_check"
    /\ IF exit_status # 0
       THEN /\ Raise("ExecutionError")
            /\ log' = log
       ELSE IF mode = "execute"
       THEN /\ outcome' = "ok"
            /\ pc' = "done"
            /\ log' = Append(log, "execute_returned")
       ELSE /\ pc' = "get"
            /\ log' = Append(log, "execute_returned")
            /\ outcome' = outcome
    /\ UNCHANGED <<mode, cfg, arg, execVars, tmpfiles>>
    /\ UNCHANGED fleetVars

(***************************************************************************)
(* RemoteHandler.solve_on_remote                                           *)
(***************************************************************************)
\* variant: the model is never written, the run goes from the script to the command
WritePythonFileSkipsModel ==
    /\ pc = "write_py"
    /\ \E ok \in BOOLEAN :
          IF ok
          THEN /\ log' = Append(log, "stage_script")
               /\ pc' = "build"
               /\ outcome' = outcome
          ELSE /\ log' = Append(log, "stage_script_failed")
               /\ Raise("TransferError")
    /\ UNCHANGED <<mode, cfg, arg, execVars, tmpfiles>>
    /\ UNCHANGED fleetVars

\* line 215: write_python_file_on_remote (lines 142-154)
WritePythonFile ==
    /\ pc = "write_py"
    /\ \E ok \in BOOLEAN :
          IF ok
          THEN /\ log' = Append(log, "stage_script")
               /\ pc' = "save_model"
               /\ outcome' = outcome
          ELSE /\ log' = Append(log, "stage_script_failed")
               /\ Raise("TransferError")
    /\ UNCHANGED <<mode, cfg, arg, execVars, tmpfiles>>
    /\ UNCHANGED fleetVars

\* lines 161-162: create the temporary file, model.to_netcdf(fn.name)
SaveModel ==
    /\ pc = "save_model"
    /\ \E ok \in BOOLEAN :
          IF ok
          THEN /\ tmpfiles' = tmpfiles \cup {"unsolved"}
               /\ log' = Append(log, "save")
               /\ pc' = "put"
               /\ outcome' = outcome
          ELSE /\ tmpfiles' = tmpfiles
               /\ log' = Append(log, "save_failed")
               /\ Raise("ArtifactError")
    /\ UNCHANGED <<mode, cfg, arg, execVars>>
    /\ UNCHANGED fleetVars

\* variant: the temporary file is removed only after a successful put
PutModelLeavesFileOnError ==
    /\ pc = "put"
    /\ \E ok \in BOOLEAN :
          IF ok
          THEN /\ tmpfiles' = tmpfiles \ {"unsolved"}
               /\ log' = Append(log, "put")
               /\ pc' = "build"
               /\ outcome' = outcome
          ELSE /\ tmpfiles' = tmpfiles
               /\ log' = Append(log, "put_failed")
               /\ Raise("TransferError")
    /\ UNCHANGED <<mode, cfg, arg, execVars>>
    /\ UNCHANGED fleetVars

\* variant: a failed put is swallowed and the workflow goes on
PutModelSwallowsError ==
    /\ pc = "put"
    /\ tmpfiles' = tmpfiles \ {"unsolved"}
    /\ \E ok \in BOOLEAN :
          log' = Append(log, IF ok THEN "put" ELSE "put_failed")
    /\ pc' = "build"
    /\ UNCHANGED <<mode, cfg, arg, execVars, outcome>>
    /\ UNCHANGED fleetVars

\* line 163 and the end of the with block: put, then the temporary file goes
PutModel ==
    /\ pc = "put"
    /\ tmpfiles' = tmpfiles \ {"unsolved"}
    /\ \E ok \in BOOLEAN :
          IF ok
          THEN /\ log' = Append(log, "put")
               /\ pc' = "build"
               /\ outcome' = outcome
          ELSE /\ log' = Append(log, "put_failed")
               /\ Raise("TransferError")
    /\ UNCHANGED <<mode, cfg, arg, execVars>>
    /\ UNCHANGED fleetVars

\* variant: the post-execution hook is put in front, the pre-execution hook behind
BuildCommandHooksSwapped(pre, post) ==
    LET c0 == python_executable \o <<" ">> \o python_file
        c1 == IF Truthy(pre) THEN c0 \o <<NL>> \o pre.text ELSE c0
    IN  IF Truthy(post) THEN post.text \o <<NL>> \o c1 ELSE c1

\* lines 218-224: the command text
BuildCommand(pre, post) ==
    LET c0 == python_executable \o <<" ">> \o python_file
        c1 == IF Truthy(pre) THEN pre.text \o <<NL>> \o c0 ELSE c0
    IN  IF Truthy(post) THEN c1 \o <<NL>> \o post.text ELSE c1

\* lines 218-227: read the hook attributes, build the text, call execute
BuildAndExecute ==
    /\ pc = "build"
    /\ IF ~HasAttr(cfg.pre) \/ ~HasAttr(cfg.post)
       THEN /\ Raise("AttributeError")
            /\ UNCHANGED <<arg, log>>
       ELSE /\ arg' = BuildCommand(cfg.pre, cfg.post)
            /\ log' = Append(log, "execute")
            /\ pc' = "exec_write"
            /\ outcome' = outcome
    /\ UNCHANGED <<mode, cfg, execVars, tmpfiles>>
    /\ UNCHANGED fleetVars

\* variant: a failed get is tried again
GetSolvedRetries ==
    /\ pc = "get"
    /\ \E ok \in BOOLEAN :
          IF ok
          THEN /\ log' = Append(log, "get")
               /\ tmpfiles' = tmpfiles \cup {"solved"}
               /\ pc' = "load"
          ELSE /\ log' = Append(log, "get_failed")
               /\ tmpfiles' = tmpfiles
               /\ pc' = IF Logged("get_failed") THEN "done" ELSE "get"
    /\ outcome' = IF pc' = "done" THEN "TransferError" ELSE outcome
    /\ UNCHANGED <<mode, cfg, arg, execVars>>
    /\ UNCHANGED fleetVars

\* lines 230-231: create the temporary file, get the solved model into it
GetSolved ==
    /\ pc = "get"
    /\ \E ok \in BOOLEAN :
          IF ok
          THEN /\ log' = Append(log, "get")
               /\ tmpfiles' = tmpfiles \cup {"solved"}
               /\ pc' = "load"
               /\ outcome' = outcome
          ELSE /\ log' = Append(log, "get_failed")
               /\ tmpfiles' = tmpfiles
               /\ Raise("TransferError")
    /\ UNCHANGED <<mode, cfg, arg, execVars>>
    /\ UNCHANGED fleetVars

\* line 232 and the end of the with block: read_netcdf, return
LoadSolved ==
    /\ pc = "load"
    /\ tmpfiles' = tmpfiles \ {"solved"}
    /\ \E ok \in BOOLEAN :
          IF ok
          THEN /\ log' = Append(log, "load")
               /\ outcome' = "ok"
               /\ pc' = "done"
          ELSE /\ log' = Append(log, "load_failed")
               /\ Raise("ArtifactError")
    /\ UNCHANGED <<mode, cfg, arg, execVars>>
    /\ UNCHANGED fleetVars

Next ==
    \/ CallExecute
    \/ CallSolve
    \/ ExecWrite
    \/ RemoteRespond
    \/ ExecRead
    \/ ExecEOF
    \/ ExecCheck
    \/ WritePythonFile
    \/ SaveModel
    \/ PutModel
    \/ BuildAndExecute
    \/ GetSolved
    \/ LoadSolved

Spec == Init /\ [][Next]_vars

(***************************************************************************)
(* The same handler on a channel that can be lost while execute reads:     *)
(* the remote shell exits or the connection drops, the lines not yet       *)
(* received never arrive, and the iteration over self.stdout ends.         *)
(***************************************************************************)
ChannelDrops ==
    /\ pc = "exec_read"
    /\ shell.answered
    /\ ~closed
    /\ stream # <<>>
    /\ stream' = <<>>
    /\ closed' = TRUE
    /\ UNCHANGED <<mode, pc, cfg, arg, cmd, writes, flushes, shell, nread,
                   print_stdout, exit_status, sink, outcome, log, tmpfiles>>
    /\ UNCHANGED fleetVars

NextDrop ==
    \/ Next
    \/ ChannelDrops

SpecDrop == Init /\ [][NextDrop]_vars

(***************************************************************************)
(* Sequential calls of execute on one session.  The shell channel and its  *)
(* stdout stream are opened once, in __post_init__, and every call reads   *)
(* on from where the call before it stopped.                               *)
(***************************************************************************)
\* execute has been called this many times
NumCalls == Cardinality({i \in 1..Len(log) : log[i] = "execute"})

\* handler.execute(c) again, after the call before it returned or raised
CallExecuteAgain ==
    /\ mode = "execute"
    /\ pc = "done"
    /\ ~closed
    /\ NumCalls < MaxCalls
    /\ Len(stream) <= MaxLeftover
    /\ \E c \in CmdPool : arg' = c
    /\ pc' = "exec_write"
    /\ log' = Append(log, "execute")
    /\ outcome' = "none"
    /\ shell' = NoAnswer
    /\ nread' = 0
    /\ sink' = <<>>
    /\ writes' = <<>>
    /\ flushes' = 0
    /\ UNCHANGED <<mode, cfg, cmd, stream, closed, print_stdout, exit_status,
                   tmpfiles>>
    /\ UNCHANGED fleetVars

NextSeq ==
    \/ CallExecute
    \/ CallExecuteAgain
    \/ ExecWrite
    \/ RemoteRespond
    \/ ExecRead
    \/ ExecEOF
    \/ ExecCheck

SpecSeq == Init /\ [][NextSeq]_vars

(***************************************************************************)
(* Two handlers run solve_on_remote at the same time, each in a process or *)
(* thread of its own with its own session to the same host.  Every remote  *)
(* call of a handler is one step; the steps of the two handlers interleave *)
(* freely, because the code takes no lock and makes no unique file name.   *)
(***************************************************************************)
\* handler h moves on to position p
Goto(h, p) == hpc' = [hpc EXCEPT ![h] = p]

\* line 215: write_python_file_on_remote writes the script, which names h's
\* model paths and h's solve_kwargs, under h's python_file
StagePythonFile(h) ==
    /\ hpc[h] = "write_py"
    /\ \E ok \in BOOLEAN :
          IF ok
          THEN /\ rfs' = [rfs EXCEPT ![RemotePath(h, "python_file")] =
                                        [by |-> h, from |-> "none"]]
               /\ Goto(h, "put")
          ELSE /\ rfs' = rfs
               /\ Goto(h, "failed")
    /\ UNCHANGED <<fetched, handlerVars>>

\* line 216: write_model_on_remote puts h's model under h's model_unsolved_file
StageModel(h) ==
    /\ hpc[h] = "put"
    /\ \E ok \in BOOLEAN :
          IF ok
          THEN /\ rfs' = [rfs EXCEPT ![RemotePath(h, "model_unsolved_file")] =
                                        [by |-> h, from |-> h]]
               /\ Goto(h, "execute")
          ELSE /\ rfs' = rfs
               /\ Goto(h, "failed")
    /\ UNCHANGED <<fetched, handlerVars>>

\* lines 218-228: the interpreter runs the file found under h's python_file.
\* That script, written by handler w, reads w's model_unsolved_file and writes
\* the solved model to w's model_solved_file; a nonzero exit status, or hook
\* attributes never assigned (line 220), end h's workflow.
RunOnRemote(h) ==
    /\ hpc[h] = "execute"
    /\ \E hooks \in BOOLEAN, code \in 0..MaxExit :
          LET w == rfs[RemotePath(h, "python_file")].by
          IN  IF hooks /\ code = 0
              THEN /\ rfs' = [rfs EXCEPT ![RemotePath(w, "model_solved_file")] =
                          [by |-> w,
                           from |-> rfs[RemotePath(w, "model_unsolved_file")].from]]
                   /\ Goto(h, "get")
              ELSE /\ rfs' = rfs
                   /\ Goto(h, "failed")
    /\ UNCHANGED <<fetched, handlerVars>>

\* line 231: get brings back what is under h's model_solved_file
FetchSolved(h) ==
    /\ hpc[h] = "get"
    /\ IF rfs[RemotePath(h, "model_solved_file")] = NoFile
       THEN /\ fetched' = fetched
            /\ Goto(h, "failed")
       ELSE \E ok \in BOOLEAN :
               IF ok
               THEN /\ fetched' = [fetched EXCEPT ![h] =
                                      rfs[RemotePath(h, "model_solved_file")]]
                    /\ Goto(h, "done")
               ELSE /\ fetched' = fetched
                    /\ Goto(h, "failed")
    /\ UNCHANGED <<rfs, handlerVars>>

NextTwo ==
    \E h \in Handlers :
        \/ StagePythonFile(h)
        \/ StageModel(h)
        \/ RunOnRemote(h)
        \/ FetchSolved(h)

SpecTwo == Init /\ [][NextTwo]_vars

TypeOK ==
    /\ mode \in {"none", "execute", "solve"}
    /\ outcome \in {"none", "ok", "ExecutionError", "TransferError",
                    "ArtifactError", "AttributeError", "ValueError", "IndexError"}
    /\ flushes \in 0..1
    /\ tmpfiles \subseteq {"unsolved", "solved"}
    /\ hpc \in [Handlers -> {"write_py", "put", "execute", "get", "done", "failed"}]

(***************************************************************************)
(* Vocabulary of the properties.                                           *)
(***************************************************************************)
\* execute has written its two input lines in this run
Wrote == Logged("execute") /\ pc # "exec_write"

\* the remote answered with the echo first: nothing was pending before it
NoBanner == shell.answered /\ shell.banner = <<>>

\* none of the lines the command printed mentions the finish token
OrdinaryOutputs ==
    \A i \in 1..Len(shell.outputs) : ~Contains(shell.outputs[i], finish)

\* the lines of a written text, each ended by "\n"
WrittenLines(t) ==
    IF t # <<>> /\ t[Len(t)] = NL THEN SplitLines(SubSeq(t, 1, Len(t) - 1))
    ELSE SplitLines(t)

\* the collaborator calls of the workflow that the ordering claims speak of
IsTransferOrExecute(e) ==
    e \in {"put", "put_failed", "execute", "execute_returned", "get", "get_failed"}

(***************************************************************************)
(* C1: for every command text C and exit code E, when the stream delivers  *)
(* the echo of C, then output lines, then the sentinel "<finish> E",       *)
(* execute(C) returns normally iff E = 0 and raises the execution error    *)
(* iff E # 0.  (Stated for output lines that do not mention the token.)    *)
(* The code does not do this: a sentinel line that ends with C (always so   *)
(* for the empty C) is taken for the echo and its exit code is lost.       *)
(***************************************************************************)
C1_ExecuteResultIffExit ==
    (mode = "execute" /\ pc = "done" /\ NoBanner /\ OrdinaryOutputs)
        => /\ (outcome = "ok" <=> shell.code = 0)
           /\ (outcome = "ExecutionError" <=> shell.code # 0)

(***************************************************************************)
(* C2: within one execute(C) call every line the remote emits after the    *)
(* echo of C and before the sentinel is forwarded to the sink exactly      *)
(* once, in arrival order, whatever its content (also a line that ends     *)
(* with C).  (Stated for output lines that do not mention the token, and   *)
(* for a scan that ended at the sentinel.)                                 *)
(***************************************************************************)
C2_OutputsForwardedOnceInOrder ==
    (/\ mode = "execute" /\ pc = "done" /\ NoBanner /\ OrdinaryOutputs
     /\ stream = <<>>
     /\ outcome \in {"ok", "ExecutionError"})
        => sink = [i \in 1..Len(shell.outputs) |-> CleanLine(shell.outputs[i])]

(***************************************************************************)
(* C3: a line received before the echo of C is never forwarded to the      *)
(* sink, changes no exit code and does not end the scan.  While execute    *)
(* has read nothing but lines that were pending before the echo, it is     *)
(* still scanning, with exit_status 0 and nothing printed.                 *)
(***************************************************************************)
C3_BannerLinesAreInert ==
    (shell.answered /\ nread <= Len(shell.banner))
        => /\ pc = "exec_read"
           /\ exit_status = 0
           /\ sink = <<>>
           /\ outcome = "none"

(***************************************************************************)
(* C4: for every execute invocation, whatever the command text, exactly    *)
(* two lines are written to the shell's input: the command text and        *)
(* "echo <finish> $?", in that order, followed by a single flush.          *)
(* C4_ExactlyTwoLines is the claim as made; it fails for a text with an    *)
(* interior newline.  C4_TwoWritesOneFlush is what the code guarantees:    *)
(* two writes (the text stripped of leading and trailing newlines, and     *)
(* the echo command, each ended by a newline), one flush, the echo         *)
(* command last, and one more line per interior newline of the text.       *)
(***************************************************************************)
C4_ExactlyTwoLines ==
    Wrote => /\ WrittenLines(Concat(writes)) = <<cmd, echo_cmd>>
             /\ flushes = 1

C4_TwoWritesOneFlush ==
    Wrote => LET typed == Strip(arg, {NL})
                 ls    == WrittenLines(Concat(writes))
             IN  /\ writes = << typed \o <<NL>>, echo_cmd \o <<NL>> >>
                 /\ flushes = 1
                 /\ Len(ls) = 2 + CountNL(typed)
                 /\ ls[Len(ls)] = echo_cmd
                 /\ SubSeq(ls, 1, Len(ls) - 1) = SplitLines(typed)

\* a multi-line text, built from hooks, has been written
C4_MultiLineWritten ==
    /\ Wrote /\ mode = "solve"
    /\ Truthy(cfg.pre) /\ Truthy(cfg.post)
    /\ Len(WrittenLines(Concat(writes))) = 4

(***************************************************************************)
(* C5: in a successful solve_on_remote run, put, execute and get are each  *)
(* called exactly once, put completes before execute starts and execute    *)
(* returns before get starts; nothing is retried.                          *)
(***************************************************************************)
C5_PutExecuteGetOnceInOrder ==
    (mode = "solve" /\ outcome = "ok")
        => SelectSeq(log, IsTransferOrExecute)
             = <<"put", "execute", "execute_returned", "get">>

C5_SuccessfulRun ==
    mode = "solve" /\ pc = "done" /\ outcome = "ok" /\ Logged("load")

(***************************************************************************)
(* C6: if execute ends with a nonzero exit status during solve_on_remote,  *)
(* get is never invoked in that run and the execution error reaches the    *)
(* caller of solve_on_remote.                                              *)
(***************************************************************************)
C6_NonzeroExitSkipsGet ==
    (mode = "solve" /\ exit_status # 0 /\ pc \notin {"exec_read", "exec_check"})
        => /\ pc = "done"
           /\ outcome = "ExecutionError"
           /\ ~Logged("get") /\ ~Logged("get_failed") /\ ~Logged("load")
           /\ tmpfiles = {}

C6_ExecuteFailedInWorkflow ==
    /\ mode = "solve" /\ pc = "done"
    /\ exit_status # 0 /\ shell.code # 0
    /\ outcome = "ExecutionError"

(***************************************************************************)
(* C7: if the put of the unsolved model fails, execute is never invoked    *)
(* (nothing is written to the shell), get is never invoked, and the        *)
(* transfer error reaches the caller.                                      *)
(***************************************************************************)
C7_FailedPutStopsWorkflow ==
    Logged("put_failed")
        => /\ pc = "done"
           /\ outcome = "TransferError"
           /\ writes = <<>> /\ flushes = 0
           /\ ~Logged("execute") /\ ~Logged("get") /\ ~Logged("get_failed")

C7_PutFailed ==
    mode = "solve" /\ Logged("put_failed") /\ Logged("stage_script") /\ Logged("save")

(***************************************************************************)
(* C8: with no pre- and no post-execution hook (a handler in its default   *)
(* configuration) solve_on_remote passes exactly                           *)
(* "<python_executable> <python_file>" to execute, the run going from put  *)
(* to execute without error.  The code does not: it raises AttributeError  *)
(* when it reads the attribute the class never declares.                   *)
(***************************************************************************)
C8_DefaultConfigReachesExecute ==
    (/\ mode = "solve"
     /\ cfg = [pre |-> NoAttr, post |-> NoAttr]
     /\ Logged("put")
     /\ pc # "build")
        => /\ Logged("execute")
           /\ arg = InterpreterLine

(***************************************************************************)
(* C9: the command text solve_on_remote passes to execute consists of the  *)
(* pre-execution hook, the interpreter line and the post-execution hook,   *)
(* each on its own line, in that order; a hook that is not configured      *)
(* contributes no line.                                                    *)
(***************************************************************************)
C9_HooksAroundInterpreterLine ==
    (mode = "solve" /\ Logged("execute"))
        => SplitLines(arg)
             = (IF Truthy(cfg.pre) THEN <<cfg.pre.text>> ELSE <<>>)
               \o <<InterpreterLine>>
               \o (IF Truthy(cfg.post) THEN <<cfg.post.text>> ELSE <<>>)

C9_BothHooksPassed ==
    /\ mode = "solve" /\ Logged("execute")
    /\ Truthy(cfg.pre) /\ Truthy(cfg.post)
    /\ Len(SplitLines(arg)) = 3

(***************************************************************************)
(* C10: every failure of execute or solve_on_remote that reaches the       *)
(* caller is the execution error or a transfer error, for any line         *)
(* sequence and any configuration.  (Failures of the model's own           *)
(* to_netcdf / read_netcdf are set aside: they belong to the artifact      *)
(* collaborator.)  The code lets ValueError and AttributeError out.        *)
(***************************************************************************)
C10_OnlyExecutionOrTransferErrors ==
    outcome \in {"none", "ok", "ExecutionError", "TransferError", "ArtifactError"}


(***************************************************************************)
(* Vocabulary of the properties about the scan.                            *)
(***************************************************************************)
\* the lines the remote sent in answer to this invocation
Delivered ==
    Transcript(shell.style, shell.banner, cmd, shell.outputs, shell.code)

\* the positions, among the first n delivered lines, of the lines that start
\* with the finish token
TokenLines(n) ==
    {i \in 1..n : StartsWith(CleanLine(Delivered[i]), finish)}

\* number of lines the echo of the typed command takes
NumEchoLines == Len(SplitLines(cmd))

\* how many of the command's output lines execute has taken from the stream
OutputsRead ==
    LET k == nread - Len(shell.banner) - NumEchoLines
    IN  IF k < 0 THEN 0
        ELSE IF k > Len(shell.outputs) THEN Len(shell.outputs) ELSE k

IsPrefix(s, t) == Len(s) <= Len(t) /\ SubSeq(t, 1, Len(s)) = s

IsWorkflowStep(e) == e \in {"stage_script", "put", "execute", "get"}

(***************************************************************************)
(* C11: within one execute call each genuine output line is forwarded to   *)
(* the sink before the next line is read, and when the call fails with     *)
(* the execution error every output line that preceded the sentinel has    *)
(* already been forwarded.  At every moment of the scan, and at the raise, *)
(* the sink holds exactly the output lines read so far.  (Stated for an    *)
(* answer that starts with the echo and whose output lines do not mention  *)
(* the token.)  The code forwards in the iteration that reads the line,    *)
(* but it does not forward every output line (the bug of C2).              *)
(***************************************************************************)
C11_OutputForwardedAsRead ==
    (/\ NoBanner /\ OrdinaryOutputs
     /\ pc \in {"exec_read", "exec_check"} \/ outcome = "ExecutionError")
        => sink = [i \in 1..OutputsRead |-> CleanLine(shell.outputs[i])]

(***************************************************************************)
(* C12: once the echo of C has been seen, the first following line that    *)
(* starts with the finish token ends the scan, also when C is empty or     *)
(* when the sentinel line ends with C.  A step that reads a line starting  *)
(* with the token while print_stdout is set leaves the read loop.  The     *)
(* code does not: such a line is taken for the echo when it ends with C.   *)
(***************************************************************************)
C12_SentinelAfterEchoEndsScan ==
    [][ (/\ pc = "exec_read" /\ print_stdout
         /\ nread' = nread + 1
         /\ StartsWith(CleanLine(Head(stream)), finish))
            => pc' # "exec_read" ]_vars

(***************************************************************************)
(* C16: if several lines starting with the finish token arrive during one  *)
(* execute call, the exit code that decides the result is the one on the   *)
(* last such line.  C16_LastMatchWins is the claim as made (for token      *)
(* lines among the command's output); it fails.                            *)
(* C16_FirstMatchWins is what the code does: the first line read that      *)
(* starts with the token and is not taken for the echo (does not end with  *)
(* the command text) ends the scan, no later line is read, and its last    *)
(* token, parsed as an integer, is the exit status the call acts on.       *)
(***************************************************************************)
C16_LastMatchWins ==
    (/\ mode = "execute" /\ pc = "done" /\ NoBanner
     /\ outcome \in {"ok", "ExecutionError"}
     /\ Cardinality(TokenLines(Len(Delivered))) >= 2
     /\ \A i \in TokenLines(Len(Delivered)) :
           ~EndsWith(CleanLine(Delivered[i]), cmd))
        => /\ exit_status = shell.code
           /\ outcome = "ok" <=> shell.code = 0

C16_FirstMatchWins ==
    shell.answered =>
        LET sent == Delivered
            seen == [i \in 1..nread |-> CleanLine(sent[i])]
            hits == {i \in 1..nread :
                        StartsWith(seen[i], finish) /\ ~EndsWith(seen[i], cmd)}
        IN  hits # {} =>
              LET first == SetMin(hits)
                  tok   == RSplit1(seen[first])[2]
              IN  /\ nread = first
                  /\ pc # "exec_read"
                  /\ IF IsIntText(tok)
                     THEN /\ exit_status = IntValue(tok)
                          /\ outcome # "ValueError"
                          /\ (mode = "execute" /\ pc = "done")
                                => (outcome = "ok" <=> IntValue(tok) = 0)
                     ELSE outcome = "ValueError"

\* two token lines were delivered, the scan stopped at the first one and acted
\* on its exit code, not on the one of the last
C16_StoppedAtFirstOfTwo ==
    /\ mode = "execute" /\ pc = "done" /\ shell.answered
    /\ Cardinality(TokenLines(Len(Delivered))) >= 2
    /\ nread < Len(Delivered)
    /\ exit_status # shell.code
    /\ outcome = "ExecutionError"

(***************************************************************************)
(* C17: every local temporary file solve_on_remote creates is deleted by   *)
(* the time the call returns or raises, on every exit path.  The file of   *)
(* the unsolved model exists only while the put is pending, the file of    *)
(* the solved model only while the load is pending.                        *)
(***************************************************************************)
C17_TemporaryFilesDeleted ==
    /\ pc = "done" => tmpfiles = {}
    /\ "unsolved" \in tmpfiles => pc = "put"
    /\ "solved" \in tmpfiles => pc = "load"

\* a run that created both files and failed at the load has ended
C17_EndedAfterFailedLoad ==
    /\ mode = "solve" /\ pc = "done"
    /\ Logged("save") /\ Logged("get") /\ Logged("load_failed")
    /\ tmpfiles = {}

(***************************************************************************)
(* C18: within one solve_on_remote the steps run in the order put of the   *)
(* unsolved model, script builder, execute, get.                           *)
(* C18_PutBeforeScript is the claim as made; it fails.                     *)
(* C18_ScriptBeforePut is the order of the code: script builder, put of    *)
(* the unsolved model, execute, get.                                       *)
(***************************************************************************)
C18_PutBeforeScript ==
    mode = "solve"
        => IsPrefix(SelectSeq(log, IsWorkflowStep),
                    <<"put", "stage_script", "execute", "get">>)

C18_ScriptBeforePut ==
    mode = "solve"
        => IsPrefix(SelectSeq(log, IsWorkflowStep),
                    <<"stage_script", "put", "execute", "get">>)

C18_AllFourStepsRun ==
    /\ mode = "solve"
    /\ SelectSeq(log, IsWorkflowStep) = <<"stage_script", "put", "execute", "get">>


(***************************************************************************)
(* C15: solve_on_remote invokes get only if the interpreter line           *)
(* "<python_executable> <python_file>" itself exited with status 0,        *)
(* whether or not hooks are configured.  The code does not: $? is the      *)
(* status of the last typed line, so a post-execution hook that succeeds   *)
(* hides the failure of the interpreter before it.                         *)
(***************************************************************************)
C15_GetOnlyAfterInterpreterSuccess ==
    (mode = "solve" /\ (Logged("get") \/ Logged("get_failed")))
        => shell.interp = 0


(***************************************************************************)
(* C14: execute returns success only after it has read a sentinel line     *)
(* whose exit code is 0; if the stream ends (channel closed, remote shell  *)
(* exited) before any sentinel line was read, execute does not report      *)
(* success.  Stated in its second half: while no line starting with the    *)
(* finish token has been read, execute has not returned normally.  The     *)
(* code does return normally: the for loop ends and exit_status is still 0.*)
(***************************************************************************)
C14_NoSuccessWithoutSentinel ==
    (shell.answered /\ TokenLines(nread) = {})
        => ~Logged("execute_returned")


(***************************************************************************)
(* C13: in sequential execute calls on one session, a line left unread in  *)
(* the stream by an earlier call never decides, shortens or otherwise      *)
(* alters a later call.  A line the later call reads before the shell has  *)
(* answered its own command is such a leftover: reading it must neither   *)
(* end the scan nor set the exit status nor raise.  The code reads on from *)
(* the one shared stream and treats the leftover like any line of the      *)
(* current call, so the sentinel of the earlier call decides the later one.*)
(***************************************************************************)
C13_LeftoverLineIsInert ==
    [][ (/\ NumCalls > 1
         /\ pc = "exec_read"
         /\ ~shell.answered
         /\ nread' = nread + 1)
            => /\ pc' = "exec_read"
               /\ UNCHANGED <<exit_status, outcome>> ]_vars


(***************************************************************************)
(* C19: two handlers with the same host and the same (default) remote      *)
(* paths that run solve_on_remote concurrently can interleave so that one  *)
(* handler's staged script or unsolved model is overwritten by the other   *)
(* before it executes, or one handler's get fetches the solved model made  *)
(* from the other handler's input; nothing prevents it.  As a property of  *)
(* every step: the model a handler puts becomes the unsolved model of      *)
(* every handler, and what a handler's get brings back is the solved model *)
(* of every handler.  The state in which handler A has fetched a result    *)
(* solved from handler B's model is reached.                               *)
(***************************************************************************)
C19_NothingIsolatesHandlers ==
    [][ \A h \in Handlers :
          /\ (hpc[h] = "put" /\ hpc'[h] = "execute")
                => \A g \in Handlers :
                      rfs'[RemotePath(g, "model_unsolved_file")] =
                          [by |-> h, from |-> h]
          /\ (hpc[h] = "get" /\ hpc'[h] = "done")
                => \A g \in Handlers :
                      fetched'[h] = rfs[RemotePath(g, "model_solved_file")] ]_vars

\* handler A ran to the end and holds the solution of handler B's model
C19_FetchedOtherHandlersResult ==
    /\ hpc["A"] = "done"
    /\ fetched["A"].from = "B"

====
